---- MODULE Spec2Model ----
(***************************************************************************)
(* A model of chessfriends.py: CfPlayer, CfMatch and CfTournament.         *)
(*                                                                         *)
(* A CfPlayer object is a positive integer, its identity; 0 stands for any *)
(* value that is no CfPlayer.  Identities are handed out in the order in   *)
(* which fresh objects are first registered.  A dictionary keyed by player *)
(* objects is a function whose domain is a set of identities.  Python's    *)
(* 0-based indices are kept in the translated loops and shifted by one     *)
(* where a sequence is indexed.                                            *)
(***************************************************************************)
EXTENDS Integers, Sequences, FiniteSets, TLC

VARIABLES players,     \* CfTournament.players
          matchdays,   \* CfTournament.matchdays: a list of lists of CfMatch
          scoreboard,  \* CfTournament.scoreboard
          match,       \* a CfMatch object of its own (the match specification)
          last,        \* the last call: its name, target, error and return value
          run,         \* how many times in a row that same call was made
          gens,        \* calls of round_robin_pairing so far
          sb0,         \* the scoreboard before the current run of calls of
                       \* evaluate_match, or before the last evaluate_scoreboard
          match0       \* the CfMatch object before the current run of calls

vars == <<players, matchdays, scoreboard, match, last, run, gens, sb0, match0>>

(***************************** bounds **************************************)
\* The longest list of players, and the most calls of round_robin_pairing,
\* in the specification of the roster and the schedule.
MaxPlayers == 5
MaxGen == 2
\* The longest run of one counted call repeated with nothing in between.
MaxRun == 2
\* In the specification of the scoring engine: the longest list of players,
\* the most matches with a result, and the most evaluations of decided
\* matches by evaluate_match that a scoreboard has counted.
MaxScorePlayers == 3
MaxDecided == 2
MaxEvals == 2

(************************** program constants ******************************)
score_win == 3
score_draw == 1
TimeLimitBase == 60
DefaultRating == 1000

ONGOING == "ONGOING"
WHITE_WINS == "WHITE_WINS"
BLACK_WINS == "BLACK_WINS"
DRAW == "DRAW"
MatchResult == {ONGOING, WHITE_WINS, BLACK_WINS, DRAW}

\* The ratings of the player objects: the default rating, one a step above
\* it, and those of demo.py.
RatingTable == <<DefaultRating, DefaultRating + 100, 1450, 1750, 1200, 1600,
                 1300, 1900, 1550, 1400>>

Rating(p) == RatingTable[((p - 1) % Len(RatingTable)) + 1]

(****************************** helpers ************************************)
Range(s) == {s[k] : k \in DOMAIN s}

\* Python's int() of a quotient: truncation toward zero.
TruncDiv(a, b) == IF a >= 0 THEN a \div b ELSE -((-a) \div b)

\* isinstance(x, CfPlayer)
IsPlayer(x) == x >= 1

(****************************** CfMatch ************************************)
\* int(rating_diff * 0.025), on the integers: 0.025 = 25/1000
TimeHandicapMut(rating_diff) == (rating_diff * 25) \div 1000

TimeHandicap(rating_diff) == TruncDiv(rating_diff * 25, 1000)

assign_handicap(m) ==
  LET rating_diff == Rating(m.opponents[1]) - Rating(m.opponents[2])
      time_handicap == TimeHandicap(rating_diff)
  IN IF rating_diff >= 0
       THEN [m EXCEPT !.time_limits[1] = @ - time_handicap]
       ELSE [m EXCEPT !.time_limits[2] = @ + time_handicap]

CfMatch(opponents) ==
  assign_handicap([opponents |-> opponents,
                   result |-> ONGOING,
                   time_limits |-> <<TimeLimitBase, TimeLimitBase>>])

swap_opponents_mut(m) ==
  [m EXCEPT !.opponents = <<m.opponents[2], m.opponents[1]>>]

swap_opponents(m) ==
  [m EXCEPT !.opponents = <<m.opponents[2], m.opponents[1]>>,
            !.time_limits = <<m.time_limits[2], m.time_limits[1]>>]

set_result(m, result) == [m EXCEPT !.result = result]

(**************************** CfTournament *********************************)
\* add_players(*args).  An argument is a list of values or a single value;
\* the loops append the players they meet until a value that is no CfPlayer
\* raises TypeError.
RECURSIVE AddList(_, _)
AddList(ps, elems) ==
  IF elems = <<>> THEN [players |-> ps, err |-> "none"]
  ELSE IF IsPlayer(Head(elems))
         THEN AddList(Append(ps, Head(elems)), Tail(elems))
         ELSE [players |-> ps, err |-> "TypeError"]

RECURSIVE AddArgs(_, _)
AddArgs(ps, args) ==
  IF args = <<>> THEN [players |-> ps, err |-> "none"]
  ELSE LET arg == Head(args) IN
       IF arg.list
         THEN LET r == AddList(ps, arg.elems) IN
              IF r.err # "none" THEN r ELSE AddArgs(r.players, Tail(args))
         ELSE IF IsPlayer(arg.elems[1])
                THEN AddArgs(Append(ps, arg.elems[1]), Tail(args))
                ELSE [players |-> ps, err |-> "TypeError"]

\* reset_scoreboard: one entry per player of the list, at 0 games and score.
reset_scoreboard(ps) == [p \in Range(ps) |-> [games |-> 0, score |-> 0]]

\* The inner loop of round_robin_pairing, for i in range(i, N // 2): the new
\* match is appended to self.matchdays[matchday], and the match at index i of
\* that list is the one swapped.
RotIndexMut(N, i, matchday) == N - i - 1

RotIndex(N, i, matchday) == N - i - 1 + matchday

RECURSIVE PairInner(_, _, _, _, _)
PairInner(mds, matchday, i, N, rot) ==
  IF i >= N \div 2 THEN mds
  ELSE LET new == CfMatch(<<rot[RotIndex(N, i, matchday) + 1],
                            rot[matchday + i + 1]>>)
           m1 == [mds EXCEPT ![matchday + 1] = Append(@, new)]
           m2 == IF i % 2 = 0
                   THEN [m1 EXCEPT ![matchday + 1][i + 1] = swap_opponents(@)]
                   ELSE m1
       IN PairInner(m2, matchday, i + 1, N, rot)

\* The outer loop, for matchday in range(matchday, N - 1): an empty list is
\* appended to self.matchdays, and self.matchdays[matchday] is the one filled.
RECURSIVE PairOuter(_, _, _, _, _)
PairOuter(mds, matchday, N, fixed_player, rot) ==
  IF matchday >= N - 1 THEN mds
  ELSE LET m0 == Append(mds, <<>>)
           m1 == [m0 EXCEPT ![matchday + 1] =
                    Append(@, CfMatch(<<fixed_player, rot[matchday + 1]>>))]
           m2 == IF matchday % 2 # 0
                   THEN [m1 EXCEPT ![matchday + 1][1] = swap_opponents(@)]
                   ELSE m1
       IN PairOuter(PairInner(m2, matchday, 1, N, rot),
                    matchday + 1, N, fixed_player, rot)

\* round_robin_pairing on a list of players: self.players[0] raises
\* IndexError on an empty list, before anything is changed.
RoundRobin(ps, mds, sb) ==
  IF ps = <<>>
    THEN [matchdays |-> mds, scoreboard |-> sb, err |-> "IndexError"]
    ELSE LET N == Len(ps)
             rotating_players == SubSeq(ps, 2, N) \o SubSeq(ps, 2, N)
         IN [matchdays |-> PairOuter(mds, 0, N, ps[1], rotating_players),
             scoreboard |-> reset_scoreboard(ps),
             err |-> "none"]

\* evaluate_match: the scores of the result, then the loop over the two
\* opponents; scoreboard[player] raises KeyError for a player with no entry.
MatchScores(m) ==
  IF m.result = WHITE_WINS THEN <<score_win, 0>>
  ELSE IF m.result = BLACK_WINS THEN <<0, score_win>>
  ELSE IF m.result = DRAW THEN <<score_draw, score_draw>>
  ELSE <<0, 0>>

RECURSIVE CountLoop(_, _, _, _)
CountLoop(sb, opponents, scores, i) ==
  IF i > 2 THEN [scoreboard |-> sb, err |-> "none", scores |-> scores]
  ELSE IF opponents[i] \notin DOMAIN sb
         THEN [scoreboard |-> sb, err |-> "KeyError", scores |-> scores]
         ELSE CountLoop([sb EXCEPT ![opponents[i]] =
                           [games |-> @.games + 1,
                            score |-> @.score + scores[i]]],
                        opponents, scores, i + 1)

EvaluateMatchMut(sb, m) ==
  CountLoop(sb, m.opponents, MatchScores(m), 1)

EvaluateMatch(sb, m) ==
  IF m.result = ONGOING
    THEN [scoreboard |-> sb, err |-> "none", scores |-> <<0, 0>>]
    ELSE CountLoop(sb, m.opponents, MatchScores(m), 1)

\* The matches of the schedule in the order the loops of evaluate_scoreboard
\* visit them.
RECURSIVE AllMatches(_)
AllMatches(mds) ==
  IF mds = <<>> THEN <<>> ELSE Head(mds) \o AllMatches(Tail(mds))

RECURSIVE EvaluateEach(_, _)
EvaluateEach(sb, ms) ==
  IF ms = <<>> THEN [scoreboard |-> sb, err |-> "none"]
  ELSE LET r == EvaluateMatch(sb, Head(ms)) IN
       IF r.err # "none" THEN [scoreboard |-> r.scoreboard, err |-> r.err]
       ELSE EvaluateEach(r.scoreboard, Tail(ms))

EvaluateScoreboardMut(ps, mds, sb) == EvaluateEach(sb, AllMatches(mds))

EvaluateScoreboard(ps, mds, sb) ==
  EvaluateEach(reset_scoreboard(ps), AllMatches(mds))

(************************ the calls and their inputs ************************)
\* The players of a list are numbered in the order of their first
\* registration: a fresh object gets the next identity.
Canonical(ps) ==
  \A k \in DOMAIN ps :
    \A q \in 1..(ps[k] - 1) : \E j \in 1..(k - 1) : ps[j] = q

Direct(x) == [list |-> FALSE, elems |-> <<x>>]
ListArg(s) == [list |-> TRUE, elems |-> s]

\* The argument tuples of add_players: one or two values, each a player, a
\* value that is no player, or a list of them.
Calls(n) ==
  LET E == 0..n IN
       {<<Direct(x)>> : x \in E}
  \cup {<<ListArg(<<>>)>>}
  \cup {<<ListArg(<<x>>)>> : x \in E}
  \cup {<<ListArg(<<x[1], x[2]>>)>> : x \in E \X E}
  \cup {<<Direct(x[1]), Direct(x[2])>> : x \in E \X E}

NoMatch == "none"
NoTarget == <<>>

Same(op, at) == last.op = op /\ last.at = at

\* The record of a call, and the length of the run of equal calls it ends
\* (runs are counted for the calls whose repetition a property is about).
Track(op, at, err, scores, empty0, counted) ==
  /\ last' = [op |-> op, at |-> at, err |-> err, scores |-> scores,
              empty0 |-> empty0]
  /\ run' = IF counted /\ Same(op, at) THEN run + 1 ELSE 1

\* The scoreboard and the match object as they were before the run.
Snapshot(op, at) ==
  /\ sb0' = IF Same(op, at) THEN sb0 ELSE scoreboard
  /\ match0' = IF Same(op, at) THEN match0 ELSE match

NoSnapshot(m) ==
  /\ sb0' = <<>>
  /\ match0' = m

InitCommon ==
  /\ last = [op |-> "init", at |-> NoTarget, err |-> "none",
             scores |-> <<0, 0>>, empty0 |-> TRUE]
  /\ run = 1
  /\ gens = 0

\* CfTournament.__init__
Init ==
  /\ players = <<>>
  /\ matchdays = <<>>
  /\ scoreboard = <<>>
  /\ match = NoMatch
  /\ match0 = NoMatch
  /\ sb0 = <<>>
  /\ InitCommon

\* The identities a call may pass: the registered ones and two fresh ones.
Offered(ps, cap) ==
  LET used == Cardinality(Range(ps)) IN IF used + 2 <= cap THEN used + 2 ELSE cap

add_players(cap) ==
  \E args \in Calls(Offered(players, cap)) :
    LET r == AddArgs(players, args) IN
      /\ Len(r.players) <= cap
      /\ Canonical(r.players)
      /\ players' = r.players
      /\ Track("add_players", NoTarget, r.err, <<0, 0>>, FALSE, FALSE)
      /\ NoSnapshot(match)
      /\ UNCHANGED <<matchdays, scoreboard, match, gens>>

round_robin_pairing(cap) ==
  /\ gens < cap
  /\ Same("round_robin_pairing", NoTarget) => run < MaxRun
  /\ LET r == RoundRobin(players, matchdays, scoreboard) IN
       /\ matchdays' = r.matchdays
       /\ scoreboard' = r.scoreboard
       /\ Track("round_robin_pairing", NoTarget, r.err, <<0, 0>>,
                matchdays = <<>>, TRUE)
       /\ NoSnapshot(match)
  /\ gens' = gens + 1
  /\ UNCHANGED <<players, match>>

Positions(mds) ==
  UNION {{<<d, i>> : i \in 1..Len(mds[d])} : d \in 1..Len(mds)}

MatchAt(mds, at) == mds[at[1]][at[2]]

Decided(mds) == {at \in Positions(mds) : MatchAt(mds, at).result # ONGOING}

\* Whether position a comes before position b in the order of the schedule.
Before(a, b) == a[1] < b[1] \/ (a[1] = b[1] /\ a[2] < b[2])

\* white_wins, black_wins and draw of a match of the schedule; the matches
\* are played, and their results recorded, in the order of the schedule.
set_match_result ==
  \E at \in Positions(matchdays) :
    \E result \in {WHITE_WINS, BLACK_WINS, DRAW} :
      /\ MatchAt(matchdays, at).result = ONGOING
      /\ \A b \in Positions(matchdays) :
           Before(b, at) => MatchAt(matchdays, b).result # ONGOING
      /\ Cardinality(Decided(matchdays)) < MaxDecided
      /\ matchdays' = [matchdays EXCEPT ![at[1]][at[2]] = set_result(@, result)]
      /\ Track("set_result", NoTarget, "none", <<0, 0>>, FALSE, FALSE)
      /\ NoSnapshot(match)
      /\ UNCHANGED <<players, scoreboard, match, gens>>

\* The evaluations of decided matches a scoreboard has counted: each one
\* counts a game for either side.
RECURSIVE SumGames(_, _)
SumGames(sb, ps) ==
  IF ps = {} THEN 0
  ELSE LET p == CHOOSE q \in ps : TRUE IN sb[p].games + SumGames(sb, ps \ {p})

Evaluations(sb) == SumGames(sb, DOMAIN sb) \div 2

evaluate_match ==
  \E at \in Positions(matchdays) :
    LET m == MatchAt(matchdays, at)
        r == EvaluateMatch(scoreboard, m)
    IN /\ Same("evaluate_match", at) => run < MaxRun
       /\ Evaluations(scoreboard) < MaxEvals
       /\ scoreboard' = r.scoreboard
       /\ Track("evaluate_match", at, r.err, r.scores, FALSE, TRUE)
       /\ Snapshot("evaluate_match", at)
       /\ UNCHANGED <<players, matchdays, match, gens>>

evaluate_scoreboard ==
  /\ Same("evaluate_scoreboard", NoTarget) => run < MaxRun
  /\ LET r == EvaluateScoreboard(players, matchdays, scoreboard) IN
       /\ scoreboard' = r.scoreboard
       /\ Track("evaluate_scoreboard", NoTarget, r.err, <<0, 0>>, FALSE, TRUE)
       /\ sb0' = scoreboard
       /\ match0' = match
  /\ UNCHANGED <<players, matchdays, match, gens>>

Next ==
  \/ add_players(MaxPlayers)
  \/ round_robin_pairing(MaxGen)

\* The roster and the schedule: registration and schedule generation.
Spec == Init /\ [][Next]_vars

\* round_robin_pairing on a tournament whose list of matchdays is empty
first_round_robin_pairing ==
  /\ matchdays = <<>>
  /\ round_robin_pairing(MaxGen)

NextScore ==
  \/ add_players(MaxScorePlayers)
  \/ first_round_robin_pairing
  \/ set_match_result
  \/ evaluate_match
  \/ evaluate_scoreboard

\* The scoring engine on top of them.
SpecScore == Init /\ [][NextScore]_vars

\* CfMatch.__init__ on two player objects
InitMatch ==
  /\ players = <<>>
  /\ matchdays = <<>>
  /\ scoreboard = <<>>
  /\ sb0 = <<>>
  /\ \E a \in DOMAIN RatingTable : \E b \in DOMAIN RatingTable :
       match = CfMatch(<<a, b>>)
  /\ match0 = match
  /\ InitCommon

swap_match ==
  /\ Same("swap_opponents", NoTarget) => run < MaxRun
  /\ match' = swap_opponents(match)
  /\ Track("swap_opponents", NoTarget, "none", <<0, 0>>, FALSE, TRUE)
  /\ Snapshot("swap_opponents", NoTarget)
  /\ UNCHANGED <<players, matchdays, scoreboard, gens>>

result_match ==
  \E result \in {WHITE_WINS, BLACK_WINS, DRAW} :
    /\ match' = set_result(match, result)
    /\ Track("set_result", NoTarget, "none", <<0, 0>>, FALSE, FALSE)
    /\ NoSnapshot(set_result(match, result))
    /\ UNCHANGED <<players, matchdays, scoreboard, gens>>

NextMatch ==
  \/ swap_match
  \/ result_match

\* One match object: construction, swap_opponents and the result setters.
SpecMatch == InitMatch /\ [][NextMatch]_vars

(***************************** properties **********************************)
Distinct(ps) == \A j \in DOMAIN ps : \A k \in DOMAIN ps : ps[j] = ps[k] => j = k

\* The matches of a schedule whose two opponents are a and b, in either order.
Meetings(mds, a, b) ==
  {at \in Positions(mds) : Range(MatchAt(mds, at).opponents) = {a, b}}

EveryPairOnce(mds, ps) ==
  \A a \in Range(ps) : \A b \in Range(ps) :
    a # b => Cardinality(Meetings(mds, a, b)) = 1

FullSchedule(mds, ps) ==
  /\ Len(mds) = Len(ps) - 1
  /\ \A d \in DOMAIN mds : Len(mds[d]) = Len(ps) \div 2
  /\ Cardinality(Positions(mds)) = (Len(ps) * (Len(ps) - 1)) \div 2
  /\ EveryPairOnce(mds, ps)

Generated == last.op = "round_robin_pairing" /\ last.err = "none"

\* C1: one call of round_robin_pairing on an empty matchday list and a roster
\* of an even number N >= 2 of distinct players leaves N-1 matchdays of N/2
\* matches each, N*(N-1)/2 matches in all, and every pair of players meets in
\* exactly one of them.
C1_EvenRosterFullSchedule ==
  (Generated /\ last.empty0 /\ Distinct(players)
     /\ Len(players) >= 2 /\ Len(players) % 2 = 0)
  => FullSchedule(matchdays, players)

C1_Witness ==
  /\ Generated /\ last.empty0 /\ Distinct(players)
  /\ Len(players) = 4
  /\ Len(matchdays) = 3
  /\ Len(matchdays[2]) = 2
  /\ Cardinality(Meetings(matchdays, 3, 4)) = 1

\* C2: one call of round_robin_pairing on an empty matchday list and a roster
\* of an odd number N >= 3 of distinct players leaves a schedule in which
\* every pair of players meets in exactly one match.
C2_OddRosterEveryPairOnce ==
  (Generated /\ last.empty0 /\ Distinct(players)
     /\ Len(players) >= 3 /\ Len(players) % 2 = 1)
  => EveryPairOnce(matchdays, players)

\* The sides of the matches of a schedule: <<matchday, match, side>>.
Sides(mds) == {<<at[1], at[2], k>> : at \in Positions(mds), k \in 1..2}

SideMatch(mds, s) == mds[s[1]][s[2]]

SidePlayer(mds, s) == SideMatch(mds, s).opponents[s[3]]

SideWon(mds, s) ==
  \/ s[3] = 1 /\ SideMatch(mds, s).result = WHITE_WINS
  \/ s[3] = 2 /\ SideMatch(mds, s).result = BLACK_WINS

GamesOf(mds, p) ==
  Cardinality({s \in Sides(mds) :
    SidePlayer(mds, s) = p /\ SideMatch(mds, s).result # ONGOING})

WinsOf(mds, p) ==
  Cardinality({s \in Sides(mds) : SidePlayer(mds, s) = p /\ SideWon(mds, s)})

DrawsOf(mds, p) ==
  Cardinality({s \in Sides(mds) :
    SidePlayer(mds, s) = p /\ SideMatch(mds, s).result = DRAW})

\* C3: after evaluate_scoreboard, whatever calls came before it, the
\* scoreboard is a function of the roster, the schedule and the results alone:
\* it has exactly the registered players as its entries, a player's games are
\* the decided matches of the schedule the player plays in and the score is
\* score_win for each one won plus score_draw for each one drawn (a match
\* counts for each of its sides, so once for each side a player holds in it).
\* A call that follows another one directly leaves the scoreboard as that
\* one left it.
C3_ScoreboardRecomputed ==
  last.op = "evaluate_scoreboard" =>
    /\ last.err = "none"
    /\ run >= 2 => scoreboard = sb0
    /\ DOMAIN scoreboard = Range(players)
    /\ \A p \in Range(players) :
         /\ scoreboard[p].games = GamesOf(matchdays, p)
         /\ scoreboard[p].score = score_win * WinsOf(matchdays, p)
                                   + score_draw * DrawsOf(matchdays, p)

C3_Witness ==
  /\ last.op = "evaluate_scoreboard"
  /\ run = 2
  /\ scoreboard = sb0
  /\ Cardinality(Decided(matchdays)) = 2
  /\ \E p \in Range(players) :
       /\ scoreboard[p].games = 2
       /\ scoreboard[p].score = score_win + score_draw

\* What one evaluation of a decided match awards the holder of one side.
AwardOf(m, k) ==
  IF m.result = DRAW THEN score_draw
  ELSE IF (k = 1 /\ m.result = WHITE_WINS) \/ (k = 2 /\ m.result = BLACK_WINS)
    THEN score_win
  ELSE 0

RECURSIVE SumAwards(_, _, _)
SumAwards(m, p, k) ==
  IF k > 2 THEN 0
  ELSE (IF m.opponents[k] = p THEN AwardOf(m, k) ELSE 0) + SumAwards(m, p, k + 1)

SidesHeld(m, p) == Cardinality({k \in 1..2 : m.opponents[k] = p})

\* C4: evaluate_match keeps no record of what it has evaluated.  After a run
\* of calls on one decided match, with nothing in between, the games of each
\* opponent have grown by one per call and the score by the award per call
\* (by 2 and by twice the award after two calls), for each side of the match,
\* and no other entry has changed.  A call on an ongoing match returns the
\* scores <<0, 0>> and a run of them leaves the scoreboard as it was.
C4_EvaluateMatchCounts ==
  last.op = "evaluate_match" =>
    LET m == MatchAt(matchdays, last.at) IN
      /\ last.err = "none"
      /\ DOMAIN scoreboard = DOMAIN sb0
      /\ IF m.result = ONGOING
           THEN scoreboard = sb0 /\ last.scores = <<0, 0>>
           ELSE \A p \in DOMAIN scoreboard :
                  /\ scoreboard[p].games = sb0[p].games + run * SidesHeld(m, p)
                  /\ scoreboard[p].score = sb0[p].score + run * SumAwards(m, p, 1)

C4_Witness ==
  /\ last.op = "evaluate_match"
  /\ run = 2
  /\ LET m == MatchAt(matchdays, last.at) IN
       /\ m.result = WHITE_WINS
       /\ m.opponents[1] # m.opponents[2]
       /\ scoreboard[m.opponents[1]].games = sb0[m.opponents[1]].games + 2
       /\ scoreboard[m.opponents[1]].score = sb0[m.opponents[1]].score + 2 * score_win
       /\ scoreboard[m.opponents[2]].games = sb0[m.opponents[2]].games + 2
       /\ scoreboard[m.opponents[2]].score = sb0[m.opponents[2]].score

\* The match object is as CfMatch.__init__ left it.
Constructed == last.op = "init"

\* The time limits a handicap gives a newly constructed match.
LimitsWith(handicap, diff) ==
  IF diff >= 0 THEN <<TimeLimitBase - handicap, TimeLimitBase>>
  ELSE <<TimeLimitBase, TimeLimitBase + handicap>>

RatingDiff(m) == Rating(m.opponents[1]) - Rating(m.opponents[2])

\* C5, as the specification states it: the handicap of a newly constructed match is
\* floor((rating0 - rating1) * 0.025); the side with the higher or equal
\* rating 0 gets 60 - handicap and the other side 60, else side 1 gets
\* 60 + handicap and side 0 gets 60; ratings (1000, 1100) give side 1 57.
C5_FloorHandicap ==
  Constructed =>
    /\ match.time_limits =
         LimitsWith((RatingDiff(match) * 25) \div 1000, RatingDiff(match))
    /\ (Rating(match.opponents[1]) = 1000 /\ Rating(match.opponents[2]) = 1100)
         => match.time_limits[2] = 57

\* C5, amended: the handicap is (rating0 - rating1) * 0.025 truncated toward
\* zero, one unit per 40 full rating points with the sign of the difference;
\* the time limits follow from it as stated, and ratings (1000, 1100) give
\* side 1 58.
C5_TruncatedHandicap ==
  Constructed =>
    LET diff == RatingDiff(match)
        handicap == IF diff >= 0 THEN diff \div 40 ELSE -((-diff) \div 40)
    IN /\ match.time_limits = LimitsWith(handicap, diff)
       /\ (Rating(match.opponents[1]) = 1000 /\ Rating(match.opponents[2]) = 1100)
            => match.time_limits = <<60, 58>>

C5_Witness ==
  /\ Constructed
  /\ Rating(match.opponents[1]) = 1000
  /\ Rating(match.opponents[2]) = 1100
  /\ match.time_limits = <<60, 58>>

\* C6: a call of add_players that raises TypeError leaves the list of players
\* as it was before the call.
C6_AddPlayersAllOrNothing ==
  [][(last'.op = "add_players" /\ last'.err = "TypeError")
       => players' = players]_vars

\* C7: a call of round_robin_pairing with fewer than 2 players registered
\* raises an error and leaves the matchdays and the scoreboard as they were.
C7_TooFewPlayersFails ==
  [][(last'.op = "round_robin_pairing" /\ Len(players) < 2)
       => (last'.err # "none" /\ matchdays' = matchdays
           /\ scoreboard' = scoreboard)]_vars

Reverse2(s) == <<s[2], s[1]>>

\* C8: one call of swap_opponents exchanges the two opponents and the two
\* time limits together and leaves the result alone; a second call right
\* after it restores the match as it was.
C8_SwapIsInvolution ==
  last.op = "swap_opponents" =>
    /\ run = 1 =>
         /\ match.opponents = Reverse2(match0.opponents)
         /\ match.time_limits = Reverse2(match0.time_limits)
         /\ match.result = match0.result
    /\ run = 2 => match = match0

C8_Witness ==
  /\ last.op = "swap_opponents"
  /\ run = 2
  /\ match = match0
  /\ match.result = DRAW
  /\ match.time_limits[1] # match.time_limits[2]

\* C9: the two opponents of every match of the schedule are two distinct
\* players, both in the list of registered players.
C9_OpponentsDistinctRegistered ==
  \A at \in Positions(matchdays) :
    LET m == MatchAt(matchdays, at) IN
      /\ m.opponents[1] # m.opponents[2]
      /\ m.opponents[1] \in Range(players)
      /\ m.opponents[2] \in Range(players)

\* C10: after k >= 1 calls of round_robin_pairing in a row, the first of them
\* on an empty matchday list, on a roster of an even number N >= 2 of
\* distinct players, the schedule is N-1 matchdays of N/2 matches each in
\* which every pair meets exactly once.
C10_RegenerationReplaces ==
  (Generated /\ run >= 1 /\ gens = run /\ Distinct(players)
     /\ Len(players) >= 2 /\ Len(players) % 2 = 0)
  => FullSchedule(matchdays, players)

====
